---- MODULE Spec2Model ----
(***************************************************************************)
(* Study-Planner, src/app.js.  Lines 364-373 of the file repeat its import  *)
(* and first declarations; the model follows lines 1-362.                  *)
(*                                                                         *)
(* Two specifications over one set of definitions:                         *)
(*   SpecCall  one run of callApiWithBackoff(payload, maxRetries) against  *)
(*             a service whose every answer is chosen freely, with the     *)
(*             history of attempts and waits recorded;                     *)
(*   Spec      the page: the submit handler handleGeneratePlan, the click  *)
(*             handler handleGenerateTest, and the requests they have in   *)
(*             flight, interleaved as the browser's event loop allows.     *)
(*                                                                         *)
(* JavaScript strings that the code trims or tests for emptiness are       *)
(* sequences of one-character strings; messages are TLA+ strings.          *)
(***************************************************************************)
EXTENDS Integers, Sequences, FiniteSets, Bags, TLC

VARIABLES
    currentMaterials,        \* app.js:21
    currentTestName,         \* app.js:22
    generateTestBtnDisabled, \* generateTestBtn.disabled
    planOutput,              \* what planOutput.innerHTML shows
    testOutput,              \* what testOutput.innerHTML shows
    inflight,                \* bag of handler invocations suspended in callApiWithBackoff
    lastValid,               \* history: name and materials of the last submission that passed validateInputs
    call,                    \* SpecCall: the run of callApiWithBackoff
    maxRetries,              \* SpecCall: its second argument
    fetches,                 \* SpecCall history: number of fetch() calls made
    attemptLog,              \* SpecCall history: what each finished attempt met
    waitLog                  \* SpecCall history: the delay of each setTimeout started

appVars == <<currentMaterials, currentTestName, generateTestBtnDisabled,
             planOutput, testOutput, inflight, lastValid>>
callVars == <<call, maxRetries, fetches, attemptLog, waitLog>>
vars == <<currentMaterials, currentTestName, generateTestBtnDisabled,
          planOutput, testOutput, inflight, lastValid,
          call, maxRetries, fetches, attemptLog, waitLog>>

(***************************************************************************)
(* Bounds.                                                                 *)
(***************************************************************************)
\* SpecCall draws maxRetries from 1..MaxRetriesBound.
MaxRetriesBound == 3
\* Spec lets at most this many handler invocations be suspended at once.
MaxInFlight == 2

(***************************************************************************)
(* The service, as callApiWithBackoff sees it.                             *)
(***************************************************************************)
\* What `await fetch(...)` settles to: a rejection (network failure), or a
\* response with a status; response.ok is status in 200..299.
OkResponse == [resolved |-> TRUE, status |-> 200]
FetchOutcomes ==
    { [resolved |-> FALSE, status |-> 0],
      OkResponse,
      [resolved |-> TRUE,  status |-> 500] }

ResponseOk(fo) == fo.resolved /\ fo.status >= 200 /\ fo.status <= 299

\* candidates[0].finishReason; "NONE" when the path is absent.
FinishReasons == {"STOP", "SAFETY", "NONE"}

\* candidates[0].content.parts[0].text; "" when empty or absent.  The other
\* values differ in what JSON.parse and displayStudyPlan make of them.
Texts == {"", "notjson", "emptyplan", "plan"}

\* What `await response.json()` settles to: a rejection (the body is not JSON)
\* or the parsed body.
BodyOutcomes ==
    { [parsed |-> FALSE, finishReason |-> "NONE", text |-> ""] }
    \cup { [parsed |-> TRUE, finishReason |-> fr, text |-> t] :
             fr \in FinishReasons, t \in Texts }

ErrNetwork == "Failed to fetch"
ErrSyntax == "Unexpected token in JSON"
ErrSafety == "The request was blocked due to safety settings."
ErrInvalid == "Received an invalid or empty response from the AI."
ErrApi(fo) == "API Error: " \o ToString(fo.status)

(***************************************************************************)
(* callApiWithBackoff, app.js:82-117.  A run is a record                   *)
(*   pc      where it is suspended: "fetch" (line 86), "json" (line 96),   *)
(*           "sleep" (line 113), or how it ended: "returned", "thrown"     *)
(*   i       the loop counter                                              *)
(*   delay   the local `delay`                                             *)
(*   result  <<body>> once returned with a value, else << >>               *)
(*   error   the message of the error thrown, else ""                      *)
(***************************************************************************)
InitialDelay == 1000
DefaultMaxRetries == 3

\* Entering the function: the loop test, then the first fetch.
callApiWithBackoff(n) ==
    IF 0 < n
    THEN [pc |-> "fetch", i |-> 0, delay |-> InitialDelay, result |-> << >>, error |-> ""]
    ELSE [pc |-> "returned", i |-> 0, delay |-> InitialDelay, result |-> << >>, error |-> ""]

\* A variant that never rethrows: the test compares i with maxRetries.
ApiCatchOffByOne(c, e, n) ==
    IF c.i = n
    THEN [c EXCEPT !.pc = "thrown", !.error = e]
    ELSE [c EXCEPT !.pc = "sleep"]

\* A variant that throws a fixed summary error instead of the caught one.
ApiCatchGeneric(c, e, n) ==
    IF c.i = n - 1
    THEN [c EXCEPT !.pc = "thrown", !.error = "Max retries exceeded"]
    ELSE [c EXCEPT !.pc = "sleep"]

\* The catch block, lines 108-113: rethrow on the last retry, else start the timer.
ApiCatch(c, e, n) ==
    IF c.i = n - 1
    THEN [c EXCEPT !.pc = "thrown", !.error = e]
    ELSE [c EXCEPT !.pc = "sleep"]

\* The error an attempt raises once fetch has settled ("" when none), lines 86-94.
RaisedAfterFetch(fo) ==
    IF ~fo.resolved THEN ErrNetwork
    ELSE IF ~ResponseOk(fo) THEN ErrApi(fo)
    ELSE ""

\* A variant that tests for an empty text before the safety flag.
RaisedAfterJsonTextFirst(bo) ==
    IF ~bo.parsed THEN ErrSyntax
    ELSE IF bo.text = "" THEN ErrInvalid
    ELSE IF bo.finishReason = "SAFETY" THEN ErrSafety
    ELSE ""

\* A variant without the safety check.
RaisedAfterJsonNoSafety(bo) ==
    IF ~bo.parsed THEN ErrSyntax
    ELSE IF bo.text = "" THEN ErrInvalid
    ELSE ""

\* The error an attempt raises once response.json() has settled, lines 96-104.
RaisedAfterJson(bo) ==
    IF ~bo.parsed THEN ErrSyntax
    ELSE IF bo.finishReason = "SAFETY" THEN ErrSafety
    ELSE IF bo.text = "" THEN ErrInvalid
    ELSE ""

\* Resuming from `await fetch`, lines 86-96 and the catch block.
ApiAfterFetch(c, fo, n) ==
    IF RaisedAfterFetch(fo) = ""
    THEN [c EXCEPT !.pc = "json"]
    ELSE ApiCatch(c, RaisedAfterFetch(fo), n)

\* Resuming from `await response.json()`, lines 96-106 and the catch block.
ApiAfterJson(c, bo, n) ==
    IF RaisedAfterJson(bo) = ""
    THEN [c EXCEPT !.pc = "returned", !.result = <<bo>>]
    ELSE ApiCatch(c, RaisedAfterJson(bo), n)

\* A variant that leaves the delay as it is.
ApiAfterSleepNoDoubling(c, n) ==
    IF c.i + 1 < n
    THEN [c EXCEPT !.pc = "fetch", !.i = c.i + 1]
    ELSE [c EXCEPT !.pc = "returned", !.i = c.i + 1]

\* Resuming from the timer, lines 113-114, then i++ and the loop test of
\* line 84; falling out of the loop returns undefined (line 117).
ApiAfterSleep(c, n) ==
    IF c.i + 1 < n
    THEN [c EXCEPT !.pc = "fetch", !.i = c.i + 1, !.delay = c.delay * 2]
    ELSE [c EXCEPT !.pc = "returned", !.i = c.i + 1, !.delay = c.delay * 2]

(***************************************************************************)
(* SpecCall: one run, with its history.                                    *)
(***************************************************************************)
NoCall == [pc |-> "none", i |-> 0, delay |-> 0, result |-> << >>, error |-> ""]
NoBody == [parsed |-> FALSE, finishReason |-> "NONE", text |-> ""]

\* A finished attempt: what fetch settled to, whether a body was read and
\* what it was, and the error the attempt raised ("" when none).
Attempt(fo, read, bo, e) == [fetch |-> fo, read |-> read, body |-> bo, raised |-> e]

AppIdle ==
    /\ currentMaterials = << >>
    /\ currentTestName = << >>
    /\ planOutput = [view |-> "initial", message |-> ""]
    /\ testOutput = [view |-> "initial", message |-> ""]
    /\ inflight = EmptyBag
    /\ lastValid = << >>

InitCall ==
    /\ AppIdle
    /\ generateTestBtnDisabled = TRUE
    /\ maxRetries \in 1..MaxRetriesBound
    /\ call = callApiWithBackoff(maxRetries)
    /\ fetches = 1
    /\ attemptLog = << >>
    /\ waitLog = << >>

Logged(c) ==
    /\ call' = c
    /\ waitLog' = IF c.pc = "sleep" THEN Append(waitLog, c.delay) ELSE waitLog
    /\ UNCHANGED <<maxRetries, fetches>>
    /\ UNCHANGED appVars

CallFetchSettles ==
    /\ call.pc = "fetch"
    /\ \E fo \in FetchOutcomes :
        /\ Logged(ApiAfterFetch(call, fo, maxRetries))
        /\ attemptLog' = IF RaisedAfterFetch(fo) = "" THEN attemptLog
                         ELSE Append(attemptLog, Attempt(fo, FALSE, NoBody, RaisedAfterFetch(fo)))

CallJsonSettles ==
    /\ call.pc = "json"
    /\ \E bo \in BodyOutcomes :
        /\ Logged(ApiAfterJson(call, bo, maxRetries))
        /\ attemptLog' = Append(attemptLog,
               Attempt(OkResponse, TRUE, bo, RaisedAfterJson(bo)))

CallTimerFires ==
    /\ call.pc = "sleep"
    /\ call' = ApiAfterSleep(call, maxRetries)
    /\ fetches' = IF call'.pc = "fetch" THEN fetches + 1 ELSE fetches
    /\ UNCHANGED <<maxRetries, attemptLog, waitLog>>
    /\ UNCHANGED appVars

NextCall == CallFetchSettles \/ CallJsonSettles \/ CallTimerFires

SpecCall == InitCall /\ [][NextCall]_vars

(***************************************************************************)
(* The page.                                                               *)
(***************************************************************************)
\* String.prototype.trim, on sequences of characters.
RECURSIVE trimStart(_)
trimStart(s) ==
    IF s = << >> THEN s
    ELSE IF Head(s) = " " THEN trimStart(Tail(s))
    ELSE s

RECURSIVE trimEnd(_)
trimEnd(s) ==
    IF s = << >> THEN s
    ELSE IF s[Len(s)] = " " THEN trimEnd(SubSeq(s, 1, Len(s) - 1))
    ELSE s

trim(s) == trimEnd(trimStart(s))

\* What the user may have typed when the form is submitted.  testDate is
\* << >> for an empty field, else <<d>>: the calendar date d days after the
\* user's local today.
Form(name, date, materials) ==
    [testName |-> name, testDate |-> date, materials |-> materials]

Forms ==
    { Form(<<"A">>, <<1>>, <<"m">>),
      Form(<<"B", " ">>, <<2>>, <<" ", "n">>),
      Form(<< >>, <<1>>, <<"m">>),
      Form(<<" ">>, <<1>>, <<"m">>),
      Form(<<"A">>, << >>, <<"m">>),
      Form(<<"A">>, <<0>>, <<"m">>),
      Form(<<"A">>, <<-1>>, <<"m">>),
      Form(<<"A">>, <<1>>, << >>),
      Form(<<"A">>, <<1>>, <<" ", " ">>) }

\* The user's offset from UTC, in hours east.
TimeZones == {-5, 0, 5}

MsPerHour == 3600000
MsPerDay == 86400000

\* new Date().setHours(0, 0, 0, 0): local midnight, in ms from the UTC
\* midnight of the user's local date.
LocalMidnight(tz) == 0 - tz * MsPerHour

\* new Date("YYYY-MM-DD").getTime(): UTC midnight of that date, same origin.
DateValue(d) == d * MsPerDay

\* validateInputs, app.js:58-74: the error message, or "" for null.
validateInputs(form, tz) ==
    IF trim(form.testName) = << >> THEN "Please enter a test name."
    ELSE IF form.testDate = << >> THEN "Please select a test date."
    ELSE IF DateValue(form.testDate[1]) <= LocalMidnight(tz)
         THEN "Please select a future date for the test."
    ELSE IF trim(form.materials) = << >> THEN "Please enter your study materials."
    ELSE ""

\* showLoading, app.js:31-38, and displayError, app.js:45-52.
showLoading(message) == [view |-> "loading", message |-> message]
displayError(message) == [view |-> "error", message |-> message]

PlanFailed(e) == "Failed to generate plan: " \o e \o ". Please try again."
TestFailed(e) == "Failed to generate test: " \o e \o ". Please try again."
ErrUndefined == "Cannot read properties of undefined"
TestPlaceholder ==
    [view |-> "text",
     message |-> "Your practice test will appear here once you click the button above."]

\* A handler invocation suspended in callApiWithBackoff: which handler, the
\* name and materials interpolated into its prompt (the test date and the
\* day count of the plan prompt are left out), and the run.
Invocation(kind, name, materials) ==
    [kind |-> kind, testName |-> name, materials |-> materials,
     call |-> callApiWithBackoff(DefaultMaxRetries)]

One(r) == SetToBag({r})
Suspended(c) == c.pc \in {"fetch", "json", "sleep"}

\* A variant that saves the state before validating.
handleGeneratePlanSaveFirst(form, tz) ==
    /\ currentTestName' = form.testName
    /\ currentMaterials' = form.materials
    /\ \/ /\ validateInputs(form, tz) # ""
          /\ planOutput' = displayError(validateInputs(form, tz))
          /\ UNCHANGED <<generateTestBtnDisabled, testOutput, inflight, lastValid>>
       \/ /\ validateInputs(form, tz) = ""
          /\ BagCardinality(inflight) < MaxInFlight
          /\ planOutput' = showLoading("Building your personalized plan...")
          /\ generateTestBtnDisabled' = TRUE
          /\ inflight' = inflight (+) One(Invocation("plan", form.testName, form.materials))
          /\ lastValid' = <<[testName |-> form.testName, materials |-> form.materials]>>
          /\ UNCHANGED testOutput
    /\ UNCHANGED callVars

\* handleGeneratePlan up to its await, app.js:124-194.
handleGeneratePlan(form, tz) ==
    /\ \/ /\ validateInputs(form, tz) # ""
          /\ planOutput' = displayError(validateInputs(form, tz))
          /\ UNCHANGED <<currentTestName, currentMaterials, generateTestBtnDisabled,
                         testOutput, inflight, lastValid>>
       \/ /\ validateInputs(form, tz) = ""
          /\ BagCardinality(inflight) < MaxInFlight
          /\ currentTestName' = form.testName
          /\ currentMaterials' = form.materials
          /\ planOutput' = showLoading("Building your personalized plan...")
          /\ generateTestBtnDisabled' = TRUE
          /\ inflight' = inflight (+) One(Invocation("plan", form.testName, form.materials))
          /\ lastValid' = <<[testName |-> form.testName, materials |-> form.materials]>>
          /\ UNCHANGED testOutput
    /\ UNCHANGED callVars

\* A variant without the guard on currentMaterials.
handleGenerateTestNoGuard ==
    /\ BagCardinality(inflight) < MaxInFlight
    /\ testOutput' = showLoading("Generating your practice test...")
    /\ inflight' = inflight (+) One(Invocation("test", currentTestName, currentMaterials))
    /\ UNCHANGED <<currentTestName, currentMaterials, generateTestBtnDisabled,
                   planOutput, lastValid>>
    /\ UNCHANGED callVars

\* handleGenerateTest up to its await, app.js:258-290.
handleGenerateTest ==
    /\ \/ /\ currentMaterials = << >>
          /\ testOutput' = displayError(
                 "Please generate a study plan first to provide materials for the test.")
          /\ UNCHANGED inflight
       \/ /\ currentMaterials # << >>
          /\ BagCardinality(inflight) < MaxInFlight
          /\ testOutput' = showLoading("Generating your practice test...")
          /\ inflight' = inflight (+) One(Invocation("test", currentTestName, currentMaterials))
    /\ UNCHANGED <<currentTestName, currentMaterials, generateTestBtnDisabled,
                   planOutput, lastValid>>
    /\ UNCHANGED callVars

\* displayStudyPlan, app.js:210-253, for a text that JSON.parse accepted.
displayStudyPlan(text) ==
    IF text = "emptyplan"
    THEN displayError("The AI returned an empty plan. Please check your inputs and try again.")
    ELSE [view |-> "plan", message |-> text]

\* displayPracticeTest, app.js:320-336.
displayPracticeTest(text) == [view |-> "test", message |-> text]

\* The error the try block of handleGeneratePlan raises after the call has
\* returned ("" when none), app.js:195-196.
PlanTryError(c) ==
    IF c.result = << >> THEN ErrUndefined
    ELSE IF c.result[1].text = "notjson" THEN ErrSyntax
    ELSE ""

\* A variant whose catch block shows a fixed message.
PlanResumesFixedMessage(c) ==
    IF c.pc = "thrown" \/ PlanTryError(c) # ""
    THEN /\ planOutput' = displayError("Failed to generate plan. Please try again.")
         /\ UNCHANGED <<generateTestBtnDisabled, testOutput>>
    ELSE /\ planOutput' = displayStudyPlan(c.result[1].text)
         /\ generateTestBtnDisabled' = FALSE
         /\ testOutput' = TestPlaceholder

\* handleGeneratePlan from its await on, app.js:194-203.
PlanResumes(c) ==
    IF c.pc = "thrown" \/ PlanTryError(c) # ""
    THEN /\ planOutput' = displayError(PlanFailed(IF c.pc = "thrown" THEN c.error ELSE PlanTryError(c)))
         /\ UNCHANGED <<generateTestBtnDisabled, testOutput>>
    ELSE /\ planOutput' = displayStudyPlan(c.result[1].text)
         /\ generateTestBtnDisabled' = FALSE
         /\ testOutput' = TestPlaceholder

\* handleGenerateTest from its await on, app.js:290-296.
TestResumes(c) ==
    /\ testOutput' =
         IF c.pc = "thrown" THEN displayError(TestFailed(c.error))
         ELSE IF c.result = << >> THEN displayError(TestFailed(ErrUndefined))
         ELSE displayPracticeTest(c.result[1].text)
    /\ UNCHANGED <<generateTestBtnDisabled, planOutput>>

\* Invocation r's run moves to c: r stays suspended, or its handler resumes
\* and finishes in the same turn of the event loop.
Settle(r, c) ==
    /\ UNCHANGED <<currentTestName, currentMaterials, lastValid>>
    /\ UNCHANGED callVars
    /\ IF Suspended(c)
       THEN /\ UNCHANGED <<generateTestBtnDisabled, planOutput, testOutput>>
            /\ inflight' = (inflight (-) One(r)) (+) One([r EXCEPT !.call = c])
       ELSE /\ IF r.kind = "plan" THEN PlanResumes(c) ELSE TestResumes(c)
            /\ inflight' = inflight (-) One(r)

Init ==
    /\ AppIdle
    /\ generateTestBtnDisabled \in BOOLEAN
    /\ call = NoCall
    /\ maxRetries = DefaultMaxRetries
    /\ fetches = 0
    /\ attemptLog = << >>
    /\ waitLog = << >>

\* The form is submitted.
Submit == \E form \in Forms, tz \in TimeZones : handleGeneratePlan(form, tz)

\* The practice-test button is clicked; a disabled button fires no click.
Click == ~generateTestBtnDisabled /\ handleGenerateTest

\* An attempt of invocation r settles.  Between `await fetch` and `await
\* response.json()` a run touches nothing but its own locals, so the page
\* takes the two resumptions as one step; SpecCall keeps them apart.
AttemptSettles ==
    \E r \in BagToSet(inflight) :
        /\ r.call.pc = "fetch"
        /\ \E fo \in FetchOutcomes :
               LET c == ApiAfterFetch(r.call, fo, DefaultMaxRetries) IN
               IF c.pc = "json"
               THEN \E bo \in BodyOutcomes : Settle(r, ApiAfterJson(c, bo, DefaultMaxRetries))
               ELSE Settle(r, c)

TimerFires ==
    \E r \in BagToSet(inflight) :
        /\ r.call.pc = "sleep"
        /\ Settle(r, ApiAfterSleep(r.call, DefaultMaxRetries))

Next == Submit \/ Click \/ AttemptSettles \/ TimerFires

Spec == Init /\ [][Next]_vars

(***************************************************************************)
(* Properties of callApiWithBackoff, checked under SpecCall.               *)
(***************************************************************************)
RECURSIVE Pow2(_)
Pow2(k) == IF k = 0 THEN 1 ELSE 2 * Pow2(k - 1)

\* The three conditions of a usable response, read off the attempt itself.
TransportOk(a) == a.fetch.resolved /\ a.fetch.status \in 200..299
SafetyBlocked(a) == a.read /\ a.body.parsed /\ a.body.finishReason = "SAFETY"
HasText(a) == a.read /\ a.body.parsed /\ a.body.text # ""
Succeeds(a) == TransportOk(a) /\ ~SafetyBlocked(a) /\ HasText(a)

Ended == call.pc \in {"returned", "thrown"}
AllFailed == \A j \in 1..Len(attemptLog) : ~Succeeds(attemptLog[j])
FailsThenSucceeds(k) ==
    /\ Len(attemptLog) = k + 1
    /\ \A j \in 1..k : ~Succeeds(attemptLog[j])
    /\ Succeeds(attemptLog[k + 1])

\* C1: when the service fails k times (0 <= k < maxRetries) and then
\* succeeds, the call returns that successful response, has made exactly
\* k+1 fetches, and the wait after failed attempt number a (from 0) was
\* 1000 * 2^a ms.
C1_FailsThenSucceeds ==
    \A k \in 0..(maxRetries - 1) :
        FailsThenSucceeds(k) =>
            /\ call.pc = "returned"
            /\ call.result = <<attemptLog[k + 1].body>>
            /\ fetches = k + 1
            /\ Len(waitLog) = k
            /\ \A a \in 0..(k - 1) : waitLog[a + 1] = 1000 * Pow2(a)

C1_Witness ==
    /\ maxRetries = 3
    /\ FailsThenSucceeds(2)
    /\ call.pc = "returned"

AllSafety ==
    /\ attemptLog # << >>
    /\ \A j \in 1..Len(attemptLog) : SafetyBlocked(attemptLog[j])

\* C2: when every response is flagged finishReason = "SAFETY", the call ends
\* only after exactly maxRetries attempts, returns nothing, and throws the
\* safety-block message, not the transport-status or invalid-response one.
C2_AlwaysSafety ==
    (AllSafety /\ Ended) =>
        /\ call.pc = "thrown"
        /\ fetches = maxRetries
        /\ Len(attemptLog) = maxRetries
        /\ call.result = << >>
        /\ call.error = ErrSafety
        /\ call.error # ErrInvalid
        /\ \A fo \in FetchOutcomes : call.error # ErrApi(fo)

C2_Witness ==
    /\ maxRetries = 3
    /\ AllSafety
    /\ call.pc = "thrown"
    /\ attemptLog[3].body.text = ""

\* C3: the call makes at most maxRetries attempts; when all maxRetries
\* attempts have failed it has thrown the error the last attempt raised,
\* and it has returned no value.
C3_LastErrorPropagates ==
    /\ fetches <= maxRetries
    /\ Len(attemptLog) <= maxRetries
    /\ (Len(attemptLog) = maxRetries /\ AllFailed) =>
           /\ call.pc = "thrown"
           /\ call.error = attemptLog[maxRetries].raised
           /\ call.result = << >>

C3_Witness ==
    /\ maxRetries = 3
    /\ Len(attemptLog) = 3
    /\ AllFailed
    /\ call.pc = "thrown"
    /\ attemptLog[1].raised # attemptLog[3].raised
    /\ attemptLog[2].raised # attemptLog[3].raised

\* C4: a returned value comes from an attempt with a success status, no
\* safety flag and a non-empty text; an attempt that breaks one of the three
\* is never returned: it is followed by a retry, or by the final throw when
\* it was attempt number maxRetries.
C4_OnlyUsableReturned ==
    /\ call.pc = "returned" =>
           /\ attemptLog # << >>
           /\ Succeeds(attemptLog[Len(attemptLog)])
           /\ call.result = <<attemptLog[Len(attemptLog)].body>>
    /\ \A j \in 1..Len(attemptLog) :
           ~Succeeds(attemptLog[j]) =>
               \/ j < Len(attemptLog)
               \/ /\ call.result = << >>
                  /\ IF j = maxRetries
                     THEN call.pc = "thrown"
                     ELSE call.pc \in {"sleep", "fetch", "json"}

C4_Witness ==
    /\ call.pc = "returned"
    /\ Len(attemptLog) = 3
    /\ ~TransportOk(attemptLog[1])
    /\ SafetyBlocked(attemptLog[2])
    /\ HasText(attemptLog[2])

\* C9: a wait is started only after a failed attempt that another attempt
\* follows: a run that exhausts its retries has waited maxRetries - 1 times
\* (1000, 2000, ... ms) and throws after the last failure without waiting;
\* with maxRetries = 1 there is no wait at all.
C9_WaitsOnlyBetweenAttempts ==
    /\ Len(waitLog) = IF Ended THEN Len(attemptLog) - 1 ELSE Len(attemptLog)
    /\ \A a \in 1..Len(waitLog) : waitLog[a] = 1000 * Pow2(a - 1)
    /\ Len(waitLog) <= maxRetries - 1
    /\ call.pc = "thrown" => Len(waitLog) = maxRetries - 1
    /\ call.pc = "sleep" => Len(attemptLog) < maxRetries
    /\ maxRetries = 1 => waitLog = << >>

C9_Witness ==
    /\ maxRetries = 3
    /\ call.pc = "thrown"
    /\ waitLog = <<1000, 2000>>

(***************************************************************************)
(* Properties of the page, checked under Spec.                             *)
(***************************************************************************)
\* The runs a suspended run of the page can move to in one step.
NextRuns(c) ==
    IF c.pc = "fetch"
    THEN { ApiAfterFetch(c, fo, DefaultMaxRetries) :
             fo \in { x \in FetchOutcomes : RaisedAfterFetch(x) # "" } }
         \cup { ApiAfterJson([c EXCEPT !.pc = "json"], bo, DefaultMaxRetries) :
                  bo \in BodyOutcomes }
    ELSE IF c.pc = "sleep" THEN { ApiAfterSleep(c, DefaultMaxRetries) }
    ELSE {}

OutputOf(kind) == IF kind = "plan" THEN planOutput ELSE testOutput
Failed(kind, e) == IF kind = "plan" THEN PlanFailed(e) ELSE TestFailed(e)

\* C5: at most one callApiWithBackoff call sequence is outstanding at any time.
C5_AtMostOneOutstanding == BagCardinality(inflight) <= 1

\* C6: handleGeneratePlan re-enables generateTestBtn when its call ends, in
\* success and in failure alike: every step in which a plan invocation's
\* call returns or throws leaves the button enabled.
C6_TriggerReenabledWhenPlanEnds ==
    [][\A r \in BagToSet(inflight) : \A c \in NextRuns(r.call) :
          (r.kind = "plan" /\ ~Suspended(c) /\ Settle(r, c))
              => ~generateTestBtnDisabled']_vars

\* The messages of validateInputs (app.js:60, 63, 68, 71).
ValidationMessages ==
    { "Please enter a test name.",
      "Please select a test date.",
      "Please select a future date for the test.",
      "Please enter your study materials." }

\* C7: a submit that validateInputs rejects starts no request and leaves
\* currentTestName, currentMaterials and generateTestBtn as they were; only
\* planOutput, which gets the validation message, changes.  Stated the other
\* way round: a step that leaves a validation message in planOutput and
\* changes currentTestName, currentMaterials, generateTestBtn, testOutput or
\* the requests in flight is no handleGeneratePlan step on a rejected form.
C7_InvalidSubmitChangesOnlyPlanOutput ==
    [][(/\ planOutput'.view = "error"
        /\ planOutput'.message \in ValidationMessages
        /\ ~UNCHANGED <<currentTestName, currentMaterials,
                        generateTestBtnDisabled, testOutput, inflight>>)
          => \A form \in Forms : \A tz \in TimeZones :
                 validateInputs(form, tz) # "" => ~handleGeneratePlan(form, tz)]_vars

C7_Witness ==
    /\ planOutput = displayError("Please enter a test name.")
    /\ currentTestName = <<"B", " ">>
    /\ currentMaterials = <<" ", "n">>
    /\ ~generateTestBtnDisabled
    /\ BagCardinality(inflight) = 1

\* C8 as stated: while an invocation's call is outstanding, its output
\* element shows the loading state.
C8_LoadingWhileOutstanding ==
    \A r \in BagToSet(inflight) : OutputOf(r.kind).view = "loading"

\* C8 as amended: a step of an outstanding call that is not its end (a failed
\* attempt that will be retried, a timer that fires) changes no output
\* element; the step in which the call throws comes after attempt number
\* maxRetries, ends the invocation and puts into its output element the
\* error message that interpolates the error thrown.
C8_OnlyFinalFailureShown ==
    [][\A r \in BagToSet(inflight) :
          CopiesIn(r, inflight') < CopiesIn(r, inflight) =>
              \A c \in NextRuns(r.call) :
                  Settle(r, c) =>
                      /\ Suspended(c) => UNCHANGED <<planOutput, testOutput>>
                      /\ c.pc = "thrown" =>
                            /\ r.call.i = DefaultMaxRetries - 1
                            /\ OutputOf(r.kind)' = displayError(Failed(r.kind, c.error))
                            /\ BagCardinality(inflight') = BagCardinality(inflight) - 1]_vars

C8_Witness ==
    /\ planOutput = displayError(PlanFailed(ErrSafety))
    /\ testOutput = displayError(TestFailed("API Error: 500"))
    /\ inflight = EmptyBag

\* C10: a click starts a request only if currentMaterials is non-empty, and
\* then some submission has passed validateInputs and the request carries the
\* name and materials of the last one that did; otherwise the click shows an
\* error and starts nothing.
C10_TestUsesLastValidSubmission ==
    [][Click =>
          IF currentMaterials = << >>
          THEN /\ inflight' = inflight
               /\ testOutput'.view = "error"
          ELSE /\ lastValid # << >>
               /\ inflight' = inflight (+) One(Invocation("test", lastValid[1].testName,
                                                          lastValid[1].materials))]_vars

C10_Witness ==
    \E r \in BagToSet(inflight), q \in BagToSet(inflight) :
        /\ r.kind = "test" /\ r.call.pc = "fetch" /\ r.call.i = 0
        /\ r.testName = <<"B", " ">> /\ r.materials = <<" ", "n">>
        /\ q.kind = "plan" /\ q.materials = <<" ", "n">>
        /\ lastValid = <<[testName |-> <<"B", " ">>, materials |-> <<" ", "n">>]>>

====
